---- MODULE Spec2Model ----
(***************************************************************************)
(* A model of drsm, "Dylan's Rusty Stack Machine": the tokenizer           *)
(* (src/src/token.rs), the Word model (src/src/word.rs) and the Machine    *)
(* with its Environment, Stack, check, eval and read_eval                  *)
(* (src/src/machine.rs).                                                   *)
(*                                                                         *)
(* Text is a sequence of one-character strings, so that tokenizing,        *)
(* parsing and rendering are computed and not assumed.  A line is the      *)
(* sequence of its maximal non-whitespace runs: the token rule             *)
(* Custom = \S+ matches every such run whole and logos takes the longest   *)
(* match, so each run yields exactly one token.                            *)
(*                                                                         *)
(* i64 is scaled to IntBits bits, two's complement.                        *)
(***************************************************************************)
EXTENDS Integers, Sequences, FiniteSets, TLC

VARIABLES env, stack, last, ref

vars == <<env, stack, last, ref>>

----------------------------------------------------------------------------
(* Bounds of the model. *)

IntBits == 2
MaxStack == 2
MaxDeep == 3
WideBits == 6

----------------------------------------------------------------------------
(* Integers of the machine: i64 scaled to IntBits bits. *)

RECURSIVE Pow2(_)
Pow2(n) == IF n = 0 THEN 1 ELSE 2 * Pow2(n - 1)

Modulus == Pow2(IntBits)
MinInt == -(Modulus \div 2)
MaxInt == (Modulus \div 2) - 1
I64 == MinInt..MaxInt

\* i64 scaled to WideBits bits, for the conversions between integers and text.
Wide == -Pow2(WideBits - 1)..(Pow2(WideBits - 1) - 1)

Wrap(x) == ((x - MinInt) % Modulus) + MinInt

Abs(x) == IF x < 0 THEN -x ELSE x

\* Division truncating toward zero, as Rust's `/` on integers.
TruncDiv(x, y) ==
    IF (x < 0) = (y < 0) THEN Abs(x) \div Abs(y) ELSE -(Abs(x) \div Abs(y))

wrapping_add(x, y) == Wrap(x + y)
\* Mutant of wrapping_sub: the operands are taken the other way round.
wrapping_sub_Reversed(x, y) == Wrap(y - x)
wrapping_sub(x, y) == Wrap(x - y)
\* Mutant of wrapping_mul: the product saturates at the ends of the range.
wrapping_mul_Saturating(x, y) ==
    IF x * y > MaxInt THEN MaxInt ELSE IF x * y < MinInt THEN MinInt ELSE x * y
wrapping_mul(x, y) == Wrap(x * y)
\* Mutant of wrapping_div: the quotient saturates at the ends of the range.
wrapping_div_Saturating(x, y) ==
    LET q == IF (x < 0) = (y < 0) THEN Abs(x) \div Abs(y) ELSE -(Abs(x) \div Abs(y))
    IN  IF q > MaxInt THEN MaxInt ELSE IF q < MinInt THEN MinInt ELSE q
\* Only applied with y # 0: i64::wrapping_div and wrapping_rem panic on y = 0.
wrapping_div(x, y) == Wrap(TruncDiv(x, y))
wrapping_rem(x, y) == Wrap(x - y * TruncDiv(x, y))

----------------------------------------------------------------------------
(* Text. *)

T_def == <<"d", "e", "f">>
T_pop == <<"p", "o", "p">>
T_drop == <<"d", "r", "o", "p">>
T_swap == <<"s", "w", "a", "p">>
T_dup == <<"d", "u", "p">>
T_add == <<"a", "d", "d">>
T_sub == <<"s", "u", "b">>
T_mul == <<"m", "u", "l">>
T_div == <<"d", "i", "v">>
T_mod == <<"m", "o", "d">>
T_zero == <<"z", "e", "r", "o", "?">>
T_print == <<"p", "r", "i", "n", "t">>

Digits == <<"0", "1", "2", "3", "4", "5", "6", "7", "8", "9">>
HexLower == <<"a", "b", "c", "d", "e", "f">>
HexUpper == <<"A", "B", "C", "D", "E", "F">>

IsDigit(c) == \E i \in 1..10 : Digits[i] = c
DigitVal(c) == (CHOOSE i \in 1..10 : Digits[i] = c) - 1
IsXDigit(c) ==
    \/ IsDigit(c)
    \/ \E i \in 1..6 : HexLower[i] = c \/ HexUpper[i] = c
XDigitVal(c) ==
    IF IsDigit(c) THEN DigitVal(c)
    ELSE 9 + (CHOOSE i \in 1..6 : HexLower[i] = c \/ HexUpper[i] = c)

\* The value of the digit string s in the given radix, least significant last.
RECURSIVE RadixVal(_, _)
RadixVal(s, radix) ==
    IF s = <<>> THEN 0
    ELSE radix * RadixVal(SubSeq(s, 1, Len(s) - 1), radix) + XDigitVal(s[Len(s)])

\* Decimal rendering of a natural number, as `{n}` formats it.
RECURSIVE NatText(_)
NatText(n) ==
    IF n < 10 THEN <<Digits[n + 1]>>
    ELSE NatText(n \div 10) \o <<Digits[(n % 10) + 1]>>

IntText(n) == IF n < 0 THEN <<"-">> \o NatText(-n) ELSE NatText(n)

----------------------------------------------------------------------------
(* error.rs: the Error type.  One record shape for every variant: s is the *)
(* text a variant carries, a and b its numbers.  Panic and Diverge are not *)
(* Error values: they are the two ways a call fails to return (see         *)
(* eval_inner).                                                            *)

Err(kind, s, a, b) == [kind |-> kind, s |-> s, a |-> a, b |-> b]

Ok == Err("Ok", <<>>, 0, 0)
Small(s, r, n) == Err("Small", s, r, n)
Parsing == Err("Parsing", <<>>, 0, 0)
Unknown(s) == Err("Unknown", s, 0, 0)
SelfRef(s) == Err("SelfRef", s, 0, 0)
Reserved == Err("Reserved", <<>>, 0, 0)
DefName == Err("DefName", <<>>, 0, 0)
NumNotName(n) == Err("NumNotName", <<>>, n, 0)
CoreNotName(s) == Err("CoreNotName", s, 0, 0)
DefBody == Err("DefBody", <<>>, 0, 0)
NNZ(s) == Err("NNZ", s, 0, 0)
Panic == Err("Panic", <<>>, 0, 0)
Diverge == Err("Diverge", <<>>, 0, 0)

\* The outcomes in which the call does not return to its caller.
Crashes == {"Panic", "Diverge"}

----------------------------------------------------------------------------
(* token.rs: Token and its lexer. *)

Tok(k, s, n) == [k |-> k, s |-> s, n |-> n]

TokDef == Tok("Def", <<>>, 0)
TokCore(s) == Tok("Core", s, 0)
TokNum(n) == Tok("Num", <<>>, n)
TokHex(n) == Tok("Hex", <<>>, n)
TokCustom(s) == Tok("Custom", s, 0)

\* The alternatives of the Core regex.
CoreSpellings ==
    {T_drop, T_swap, T_dup, T_add, T_sub, T_mul, T_div, T_mod, T_zero, T_print}

\* -?[[:digit:]]+
IsNumText(r) ==
    LET d == IF r[1] = "-" THEN Tail(r) ELSE r
    IN  d # <<>> /\ \A i \in 1..Len(d) : IsDigit(d[i])

\* #[[:xdigit:]]+
IsHexText(r) ==
    /\ Len(r) >= 2
    /\ r[1] = "#"
    /\ \A i \in 2..Len(r) : IsXDigit(r[i])

\* str::parse::<i64>: Err on overflow of the integer range, here ints.
ParseNumIn(r, ints) ==
    LET neg == r[1] = "-"
        d == IF neg THEN Tail(r) ELSE r
        v == IF neg THEN -RadixVal(d, 10) ELSE RadixVal(d, 10)
    IN  IF v \in ints THEN [ok |-> TRUE, tok |-> TokNum(v), e |-> Ok]
        ELSE [ok |-> FALSE, tok |-> TokDef, e |-> Parsing]

ParseNum(r) == ParseNumIn(r, I64)

\* i64::from_str_radix(&slice[1..], 16)
ParseHexIn(r, ints) ==
    LET v == RadixVal(Tail(r), 16)
    IN  IF v \in ints THEN [ok |-> TRUE, tok |-> TokHex(v), e |-> Ok]
        ELSE [ok |-> FALSE, tok |-> TokDef, e |-> Parsing]

ParseHex(r) == ParseHexIn(r, I64)

\* The token of one non-whitespace run r (r # <<>>).
LexRun(r) ==
    IF r = T_def THEN [ok |-> TRUE, tok |-> TokDef, e |-> Ok]
    ELSE IF r \in CoreSpellings THEN [ok |-> TRUE, tok |-> TokCore(r), e |-> Ok]
    ELSE IF IsNumText(r) THEN ParseNum(r)
    ELSE IF IsHexText(r) THEN ParseHex(r)
    ELSE [ok |-> TRUE, tok |-> TokCustom(r), e |-> Ok]

\* Token::lexer(s).collect::<Result<Vec<_>, _>>(): the tokens of the line, or
\* the error of the first run that fails to lex.
Lexer(line) ==
    LET rs == [i \in 1..Len(line) |-> LexRun(line[i])]
        bad == {i \in 1..Len(line) : ~rs[i].ok}
    IN  IF bad = {} THEN [ok |-> TRUE, toks |-> [i \in 1..Len(line) |-> rs[i].tok], e |-> Ok]
        ELSE [ok |-> FALSE, toks |-> <<>>,
              e |-> rs[CHOOSE i \in bad : \A j \in bad : i <= j].e]

----------------------------------------------------------------------------
(* token.rs: the lexer on the characters of a string.  At a position that  *)
(* is not whitespace every rule matches a prefix of what follows, possibly *)
(* empty; logos takes the longest match and, among rules that match the    *)
(* same text, the one of highest priority: Custom, of priority 0, is last. *)

\* #[logos(skip r"\s")]
IsSpace(c) == c \in {" ", "\t", "\n"}
NotSpace(c) == ~IsSpace(c)

\* The character classes of the token rules.
InClass(cls, c) ==
    CASE cls = "digit" -> IsDigit(c)
      [] cls = "xdigit" -> IsXDigit(c)
      [] cls = "S" -> NotSpace(c)

\* How many characters of s from position p on are of class cls, greedily.
ClassLen(s, p, cls) ==
    CHOOSE n \in 0..(Len(s) - p + 1) :
        /\ \A i \in p..(p + n - 1) : InClass(cls, s[i])
        /\ p + n > Len(s) \/ ~InClass(cls, s[p + n])

\* Len(t) if the literal t stands at position p of s, else 0.
LitLen(s, p, t) ==
    IF p + Len(t) - 1 <= Len(s) /\ SubSeq(s, p, p + Len(t) - 1) = t THEN Len(t) ELSE 0

\* #[token("def")]
DefLen(s, p) == LitLen(s, p, T_def)

\* (drop|swap|dup|add|sub|mul|div|mod|zero[?]|print)
CoreLen(s, p) ==
    LET ls == {LitLen(s, p, c) : c \in CoreSpellings}
    IN  CHOOSE n \in ls : \A m \in ls : m <= n

\* -?[[:digit:]]+
NumLen(s, p) ==
    LET sign == IF s[p] = "-" THEN 1 ELSE 0
        d == ClassLen(s, p + sign, "digit")
    IN  IF d = 0 THEN 0 ELSE sign + d

\* #[[:xdigit:]]+
HexLen(s, p) ==
    LET d == ClassLen(s, p + 1, "xdigit")
    IN  IF s[p] # "#" \/ d = 0 THEN 0 ELSE 1 + d

\* \S+
CustomLen(s, p) == ClassLen(s, p, "S")

Max(S) == CHOOSE n \in S : \A m \in S : m <= n

\* Mutant of NextToken: the identifier rule wins over the rules that match
\* the same text.
NextToken_CustomFirst(s, p, ints) ==
    LET n == Max({DefLen(s, p), CoreLen(s, p), NumLen(s, p), HexLen(s, p), CustomLen(s, p)})
        slice == SubSeq(s, p, p + n - 1)
        r == IF CustomLen(s, p) = n THEN [ok |-> TRUE, tok |-> TokCustom(slice), e |-> Ok]
             ELSE IF DefLen(s, p) = n THEN [ok |-> TRUE, tok |-> TokDef, e |-> Ok]
             ELSE IF CoreLen(s, p) = n THEN [ok |-> TRUE, tok |-> TokCore(slice), e |-> Ok]
             ELSE IF NumLen(s, p) = n THEN ParseNumIn(slice, ints)
             ELSE ParseHexIn(slice, ints)
    IN  [r |-> r, len |-> n]

\* The token that starts at position p of s (s[p] not whitespace), and its
\* length.
NextToken(s, p, ints) ==
    LET n == Max({DefLen(s, p), CoreLen(s, p), NumLen(s, p), HexLen(s, p), CustomLen(s, p)})
        slice == SubSeq(s, p, p + n - 1)
        r == IF DefLen(s, p) = n THEN [ok |-> TRUE, tok |-> TokDef, e |-> Ok]
             ELSE IF CoreLen(s, p) = n THEN [ok |-> TRUE, tok |-> TokCore(slice), e |-> Ok]
             ELSE IF NumLen(s, p) = n THEN ParseNumIn(slice, ints)
             ELSE IF HexLen(s, p) = n THEN ParseHexIn(slice, ints)
             ELSE [ok |-> TRUE, tok |-> TokCustom(slice), e |-> Ok]
    IN  [r |-> r, len |-> n]

\* The results of the lexer's iterator on s from position p on.
RECURSIVE TokensFrom(_, _, _)
TokensFrom(s, p, ints) ==
    IF p > Len(s) THEN <<>>
    ELSE IF IsSpace(s[p]) THEN TokensFrom(s, p + 1, ints)
    ELSE LET t == NextToken(s, p, ints)
         IN  <<t.r>> \o TokensFrom(s, p + t.len, ints)

\* Token::lexer(s).collect::<Result<Vec<_>, _>>()
Collect(rs) ==
    LET bad == {i \in 1..Len(rs) : ~rs[i].ok}
    IN  IF bad = {} THEN [ok |-> TRUE, toks |-> [i \in 1..Len(rs) |-> rs[i].tok], e |-> Ok]
        ELSE [ok |-> FALSE, toks |-> <<>>,
              e |-> rs[CHOOSE i \in bad : \A j \in bad : i <= j].e]

Tokenize(s, ints) == Collect(TokensFrom(s, 1, ints))

\* Lower-case hexadecimal rendering of a natural number, as `{n:x}`.
RECURSIVE HexText(_)
HexText(n) ==
    LET d == IF n % 16 < 10 THEN Digits[(n % 16) + 1] ELSE HexLower[(n % 16) - 9]
    IN  IF n < 16 THEN <<d>> ELSE HexText(n \div 16) \o <<d>>

\* impl fmt::Display for Token
TokDisplay(t) ==
    CASE t.k = "Def" -> T_def
      [] t.k = "Core" -> t.s
      [] t.k = "Num" -> IntText(t.n)
      [] t.k = "Hex" -> <<"#">> \o HexText(t.n)
      [] t.k = "Custom" -> t.s

----------------------------------------------------------------------------
(* word.rs: Word, its Display, its conversion from Token, into_name. *)

Wd(k, n, w) == [k |-> k, n |-> n, w |-> w]

Pop == Wd("Pop", 0, <<>>)
Swap == Wd("Swap", 0, <<>>)
Dup == Wd("Dup", 0, <<>>)
Add == Wd("Add", 0, <<>>)
Sub == Wd("Sub", 0, <<>>)
Mul == Wd("Mul", 0, <<>>)
Div == Wd("Div", 0, <<>>)
Mod == Wd("Mod", 0, <<>>)
Zero == Wd("Zero", 0, <<>>)
Num(n) == Wd("Num", n, <<>>)
Custom(w) == Wd("Custom", 0, w)

CoreWords == {Pop, Swap, Dup, Add, Sub, Mul, Div, Mod, Zero}

\* impl fmt::Display for Word
Display(w) ==
    CASE w.k = "Pop" -> T_pop
      [] w.k = "Swap" -> T_swap
      [] w.k = "Dup" -> T_dup
      [] w.k = "Add" -> T_add
      [] w.k = "Sub" -> T_sub
      [] w.k = "Mul" -> T_mul
      [] w.k = "Div" -> T_div
      [] w.k = "Mod" -> T_mod
      [] w.k = "Zero" -> T_zero
      [] w.k = "Num" -> IntText(w.n)
      [] w.k = "Custom" -> w.w

\* Mutant of try_from: `def` converts like an identifier.
try_from_DefIsName(t) ==
    CASE t.k = "Def" -> [ok |-> TRUE, w |-> Custom(T_def), e |-> Ok]
      [] t.k = "Core" ->
            IF \E c \in CoreWords : Display(c) = t.s
            THEN [ok |-> TRUE, w |-> CHOOSE c \in CoreWords : Display(c) = t.s, e |-> Ok]
            ELSE [ok |-> FALSE, w |-> Pop, e |-> Unknown(t.s)]
      [] t.k \in {"Num", "Hex"} -> [ok |-> TRUE, w |-> Num(t.n), e |-> Ok]
      [] t.k = "Custom" -> [ok |-> TRUE, w |-> Custom(t.s), e |-> Ok]

\* impl TryFrom<Token> for Word
try_from(t) ==
    CASE t.k = "Def" -> [ok |-> FALSE, w |-> Pop, e |-> Reserved]
      [] t.k = "Core" ->
            IF \E c \in CoreWords : Display(c) = t.s
            THEN [ok |-> TRUE, w |-> CHOOSE c \in CoreWords : Display(c) = t.s, e |-> Ok]
            ELSE [ok |-> FALSE, w |-> Pop, e |-> Unknown(t.s)]
      [] t.k \in {"Num", "Hex"} -> [ok |-> TRUE, w |-> Num(t.n), e |-> Ok]
      [] t.k = "Custom" -> [ok |-> TRUE, w |-> Custom(t.s), e |-> Ok]

\* Mutant of WordEqString: no word equals a string.
WordEqString_Never(w, s) == FALSE

\* impl PartialEq<String> for Word
WordEqString(w, s) == w.k = "Custom" /\ w.w = s

\* Mutant of into_name: a core word gives its display form as the name.
into_name_CoreIsName(w) ==
    CASE w.k = "Custom" -> [ok |-> TRUE, name |-> w.w, e |-> Ok]
      [] w.k = "Num" -> [ok |-> FALSE, name |-> <<>>, e |-> NumNotName(w.n)]
      [] OTHER -> [ok |-> TRUE, name |-> Display(w), e |-> Ok]

\* Word::into_name
into_name(w) ==
    CASE w.k = "Custom" -> [ok |-> TRUE, name |-> w.w, e |-> Ok]
      [] w.k = "Num" -> [ok |-> FALSE, name |-> <<>>, e |-> NumNotName(w.n)]
      [] OTHER -> [ok |-> FALSE, name |-> <<>>, e |-> CoreNotName(Display(w))]

----------------------------------------------------------------------------
(* machine.rs: the Machine.  env is the IndexMap<String, Vec<Word>> as the *)
(* sequence of its entries in insertion order; stack is the Vec<i64>, top  *)
(* last.                                                                   *)

Keys(e) == {e[i].k : i \in 1..Len(e)}
contains_key(e, k) == k \in Keys(e)
get(e, k) == e[CHOOSE i \in 1..Len(e) : e[i].k = k].v

\* Mutant of insert: a present key is removed and the entry goes to the end.
insert_MovesToEnd(e, k, v) ==
    SelectSeq(e, LAMBDA x : x.k # k) \o <<[k |-> k, v |-> v]>>

\* Mutant of insert: a new key starts the map afresh.
insert_DropsOthers(e, k, v) ==
    IF k \in {e[i].k : i \in 1..Len(e)}
    THEN [i \in 1..Len(e) |-> IF e[i].k = k THEN [k |-> k, v |-> v] ELSE e[i]]
    ELSE <<[k |-> k, v |-> v]>>

\* Mutant of insert: a present key keeps its old value.
insert_KeepsFirst(e, k, v) ==
    IF k \in {e[i].k : i \in 1..Len(e)} THEN e ELSE Append(e, [k |-> k, v |-> v])

\* IndexMap::insert: a present key keeps its position and takes the new value,
\* an absent key is appended.
insert(e, k, v) ==
    IF contains_key(e, k)
    THEN [i \in 1..Len(e) |-> IF e[i].k = k THEN [k |-> k, v |-> v] ELSE e[i]]
    ELSE Append(e, [k |-> k, v |-> v])

\* Mutant of Arity: zero? asks for two values.
Arity_ZeroNeedsTwo(w) ==
    CASE w.k \in {"Num", "Custom"} -> 0
      [] w.k \in {"Pop", "Dup"} -> 1
      [] w.k \in {"Swap", "Add", "Sub", "Mul", "Div", "Mod", "Zero"} -> 2

\* The required depth r of Machine::check.
Arity(w) ==
    CASE w.k \in {"Num", "Custom"} -> 0
      [] w.k \in {"Pop", "Dup"} -> 1
      [] w.k \in {"Swap", "Add", "Sub", "Mul", "Div", "Mod"} -> 2
      [] w.k = "Zero" -> 3

\* Mutant of check: the divisor test reads the top of the stack.
check_DivisorOnTop(e, st, w) ==
    LET s == Len(st)
        r == Arity(w)
    IN  IF s < r THEN Small(Display(w), r, s)
        ELSE IF w.k \in {"Div", "Mod"} /\ st[s] = 0 THEN NNZ(Display(w))
        ELSE IF w.k = "Custom" /\ ~contains_key(e, Display(w)) THEN Unknown(Display(w))
        ELSE Ok

\* Machine::check
check(e, st, w) ==
    LET s == Len(st)
        r == Arity(w)
    IN  IF s < r THEN Small(Display(w), r, s)
        ELSE IF w.k \in {"Div", "Mod"} /\ st[s - 1] = 0 THEN NNZ(Display(w))
        ELSE IF w.k = "Custom" /\ ~contains_key(e, Display(w)) THEN Unknown(Display(w))
        ELSE Ok

Out(res, st) == [res |-> res, stack |-> st]

\* st without its last n elements.
DropTop(st, n) == SubSeq(st, 1, Len(st) - n)

\* Mutant of eval_core: zero? pushes the third value on zero, else the second.
eval_core_ZeroPicksOther(st, w) ==
    LET s == Len(st)
        x == st[s]
        y == st[s - 1]
        z == st[s - 2]
    IN  CASE w.k = "Num" -> Out(Ok, Append(st, w.n))
          [] w.k = "Pop" ->
                IF s < 1 THEN Out(Panic, st) ELSE Out(Ok, DropTop(st, 1))
          [] w.k = "Dup" ->
                IF s < 1 THEN Out(Panic, st) ELSE Out(Ok, Append(st, x))
          [] w.k = "Swap" ->
                IF s < 2 THEN Out(Panic, <<>>)
                ELSE Out(Ok, DropTop(st, 2) \o <<x, y>>)
          [] w.k = "Add" ->
                IF s < 2 THEN Out(Panic, <<>>)
                ELSE Out(Ok, Append(DropTop(st, 2), wrapping_add(x, y)))
          [] w.k = "Sub" ->
                IF s < 2 THEN Out(Panic, <<>>)
                ELSE Out(Ok, Append(DropTop(st, 2), wrapping_sub(x, y)))
          [] w.k = "Mul" ->
                IF s < 2 THEN Out(Panic, <<>>)
                ELSE Out(Ok, Append(DropTop(st, 2), wrapping_mul(x, y)))
          [] w.k = "Div" ->
                IF s < 2 THEN Out(Panic, <<>>)
                ELSE IF y = 0 THEN Out(Panic, DropTop(st, 2))
                ELSE Out(Ok, Append(DropTop(st, 2), wrapping_div(x, y)))
          [] w.k = "Mod" ->
                IF s < 2 THEN Out(Panic, <<>>)
                ELSE IF y = 0 THEN Out(Panic, DropTop(st, 2))
                ELSE Out(Ok, Append(DropTop(st, 2), wrapping_rem(x, y)))
          [] w.k = "Zero" ->
                IF s < 3 THEN Out(Panic, <<>>)
                ELSE Out(Ok, Append(DropTop(st, 3), IF x = 0 THEN z ELSE y))

\* Mutant of eval_core: dup pushes the popped value back once.
eval_core_DupPushesOnce(st, w) ==
    LET s == Len(st)
        x == st[s]
        y == st[s - 1]
        z == st[s - 2]
    IN  CASE w.k = "Num" -> Out(Ok, Append(st, w.n))
          [] w.k = "Pop" ->
                IF s < 1 THEN Out(Panic, st) ELSE Out(Ok, DropTop(st, 1))
          [] w.k = "Dup" ->
                IF s < 1 THEN Out(Panic, st) ELSE Out(Ok, st)
          [] w.k = "Swap" ->
                IF s < 2 THEN Out(Panic, <<>>)
                ELSE Out(Ok, DropTop(st, 2) \o <<x, y>>)
          [] w.k = "Add" ->
                IF s < 2 THEN Out(Panic, <<>>)
                ELSE Out(Ok, Append(DropTop(st, 2), wrapping_add(x, y)))
          [] w.k = "Sub" ->
                IF s < 2 THEN Out(Panic, <<>>)
                ELSE Out(Ok, Append(DropTop(st, 2), wrapping_sub(x, y)))
          [] w.k = "Mul" ->
                IF s < 2 THEN Out(Panic, <<>>)
                ELSE Out(Ok, Append(DropTop(st, 2), wrapping_mul(x, y)))
          [] w.k = "Div" ->
                IF s < 2 THEN Out(Panic, <<>>)
                ELSE IF y = 0 THEN Out(Panic, DropTop(st, 2))
                ELSE Out(Ok, Append(DropTop(st, 2), wrapping_div(x, y)))
          [] w.k = "Mod" ->
                IF s < 2 THEN Out(Panic, <<>>)
                ELSE IF y = 0 THEN Out(Panic, DropTop(st, 2))
                ELSE Out(Ok, Append(DropTop(st, 2), wrapping_rem(x, y)))
          [] w.k = "Zero" ->
                IF s < 3 THEN Out(Panic, <<>>)
                ELSE Out(Ok, Append(DropTop(st, 3), IF x = 0 THEN y ELSE z))

\* Mutant of eval_core: swap pushes the two values back as they were.
eval_core_SwapPushesBack(st, w) ==
    LET s == Len(st)
        x == st[s]
        y == st[s - 1]
        z == st[s - 2]
    IN  CASE w.k = "Num" -> Out(Ok, Append(st, w.n))
          [] w.k = "Pop" ->
                IF s < 1 THEN Out(Panic, st) ELSE Out(Ok, DropTop(st, 1))
          [] w.k = "Dup" ->
                IF s < 1 THEN Out(Panic, st) ELSE Out(Ok, Append(st, x))
          [] w.k = "Swap" ->
                IF s < 2 THEN Out(Panic, <<>>)
                ELSE Out(Ok, DropTop(st, 2) \o <<y, x>>)
          [] w.k = "Add" ->
                IF s < 2 THEN Out(Panic, <<>>)
                ELSE Out(Ok, Append(DropTop(st, 2), wrapping_add(x, y)))
          [] w.k = "Sub" ->
                IF s < 2 THEN Out(Panic, <<>>)
                ELSE Out(Ok, Append(DropTop(st, 2), wrapping_sub(x, y)))
          [] w.k = "Mul" ->
                IF s < 2 THEN Out(Panic, <<>>)
                ELSE Out(Ok, Append(DropTop(st, 2), wrapping_mul(x, y)))
          [] w.k = "Div" ->
                IF s < 2 THEN Out(Panic, <<>>)
                ELSE IF y = 0 THEN Out(Panic, DropTop(st, 2))
                ELSE Out(Ok, Append(DropTop(st, 2), wrapping_div(x, y)))
          [] w.k = "Mod" ->
                IF s < 2 THEN Out(Panic, <<>>)
                ELSE IF y = 0 THEN Out(Panic, DropTop(st, 2))
                ELSE Out(Ok, Append(DropTop(st, 2), wrapping_rem(x, y)))
          [] w.k = "Zero" ->
                IF s < 3 THEN Out(Panic, <<>>)
                ELSE Out(Ok, Append(DropTop(st, 3), IF x = 0 THEN y ELSE z))

\* One arm of eval_inner for a core word or a number.  Each stack.pop() is
\* followed by expect(): on an empty stack the call panics, with the stack as
\* the earlier pops left it.  wrapping_div and wrapping_rem panic on a zero
\* right operand, after both pops.
eval_core(st, w) ==
    LET s == Len(st)
        x == st[s]
        y == st[s - 1]
        z == st[s - 2]
    IN  CASE w.k = "Num" -> Out(Ok, Append(st, w.n))
          [] w.k = "Pop" ->
                IF s < 1 THEN Out(Panic, st) ELSE Out(Ok, DropTop(st, 1))
          [] w.k = "Dup" ->
                IF s < 1 THEN Out(Panic, st) ELSE Out(Ok, Append(st, x))
          [] w.k = "Swap" ->
                IF s < 2 THEN Out(Panic, <<>>)
                ELSE Out(Ok, DropTop(st, 2) \o <<x, y>>)
          [] w.k = "Add" ->
                IF s < 2 THEN Out(Panic, <<>>)
                ELSE Out(Ok, Append(DropTop(st, 2), wrapping_add(x, y)))
          [] w.k = "Sub" ->
                IF s < 2 THEN Out(Panic, <<>>)
                ELSE Out(Ok, Append(DropTop(st, 2), wrapping_sub(x, y)))
          [] w.k = "Mul" ->
                IF s < 2 THEN Out(Panic, <<>>)
                ELSE Out(Ok, Append(DropTop(st, 2), wrapping_mul(x, y)))
          [] w.k = "Div" ->
                IF s < 2 THEN Out(Panic, <<>>)
                ELSE IF y = 0 THEN Out(Panic, DropTop(st, 2))
                ELSE Out(Ok, Append(DropTop(st, 2), wrapping_div(x, y)))
          [] w.k = "Mod" ->
                IF s < 2 THEN Out(Panic, <<>>)
                ELSE IF y = 0 THEN Out(Panic, DropTop(st, 2))
                ELSE Out(Ok, Append(DropTop(st, 2), wrapping_rem(x, y)))
          [] w.k = "Zero" ->
                IF s < 3 THEN Out(Panic, <<>>)
                ELSE Out(Ok, Append(DropTop(st, 3), IF x = 0 THEN y ELSE z))

RECURSIVE eval_inner(_, _, _, _)
RECURSIVE eval_body(_, _, _, _, _)

\* Mutant of eval_inner: a name without an entry evaluates as an empty body.
eval_inner_MissingIsEmpty(e, st, w, chain) ==
    IF w.k # "Custom" THEN eval_core(st, w)
    ELSE IF ~contains_key(e, w.w) THEN Out(Ok, st)
    ELSE IF w.w \in chain THEN Out(Diverge, st)
    ELSE eval_body(e, st, get(e, w.w), 1, chain \cup {w.w})

\* eval_inner.  chain is the set of names whose bodies are being evaluated, the
\* call chain of the recursion.  Evaluation has no branches, so a name met
\* again on its own chain is met again in every round: the recursion never
\* returns, and ends in the exhaustion of the host's call stack or in a panic
\* of a later round.  That outcome is Diverge.
eval_inner(e, st, w, chain) ==
    IF w.k # "Custom" THEN eval_core(st, w)
    ELSE IF ~contains_key(e, w.w) THEN Out(Unknown(w.w), st)
    ELSE IF w.w \in chain THEN Out(Diverge, st)
    ELSE eval_body(e, st, get(e, w.w), 1, chain \cup {w.w})

\* Mutant of eval_body: the loop ends after one word.
eval_body_FirstWordOnly(e, st, body, i, chain) ==
    IF i > Len(body) THEN Out(Ok, st)
    ELSE eval_inner(e, st, body[i], chain)

\* for v in body { eval_inner(env, stack, v)?; }   from the i-th word on.
eval_body(e, st, body, i, chain) ==
    IF i > Len(body) THEN Out(Ok, st)
    ELSE LET o == eval_inner(e, st, body[i], chain)
         IN  IF o.res # Ok THEN o
             ELSE eval_body(e, o.stack, body, i + 1, chain)

\* Machine::eval
eval(e, st, w) ==
    LET c == check(e, st, w)
    IN  IF c # Ok THEN Out(c, st) ELSE eval_inner(e, st, w, {})

MOut(res, e, st) == [res |-> res, env |-> e, stack |-> st]

\* Mutant of define: the name is also looked for in the bodies of the names
\* the new body mentions.
define_LooksIntoBodies(e, st, ts) ==
    IF ts = <<>> THEN MOut(DefName, e, st)
    ELSE
    LET kw == try_from(ts[1])
        k == IF kw.ok THEN into_name(kw.w) ELSE [ok |-> FALSE, name |-> <<>>, e |-> kw.e]
        rest == Tail(ts)
        cs == [i \in 1..Len(rest) |-> try_from(rest[i])]
        bad == {i \in 1..Len(rest) : ~cs[i].ok}
        us == [i \in 1..Len(rest) |-> cs[i].w]
        Reaches(u) ==
            \/ WordEqString(u, k.name)
            \/ /\ u.k = "Custom"
               /\ contains_key(e, u.w)
               /\ \E j \in 1..Len(get(e, u.w)) : WordEqString(get(e, u.w)[j], k.name)
    IN  IF ~k.ok THEN MOut(k.e, e, st)
        ELSE IF bad # {} THEN MOut(cs[CHOOSE i \in bad : \A j \in bad : i <= j].e, e, st)
        ELSE IF us = <<>> THEN MOut(DefBody, e, st)
        ELSE IF \E i \in 1..Len(us) : Reaches(us[i])
             THEN MOut(SelfRef(k.name), e, st)
        ELSE MOut(Ok, insert(e, k.name, us), st)

\* Mutant of define: the body is bound before it is looked at for the name.
define_InsertsBeforeCheck(e, st, ts) ==
    IF ts = <<>> THEN MOut(DefName, e, st)
    ELSE
    LET kw == try_from(ts[1])
        k == IF kw.ok THEN into_name(kw.w) ELSE [ok |-> FALSE, name |-> <<>>, e |-> kw.e]
        rest == Tail(ts)
        cs == [i \in 1..Len(rest) |-> try_from(rest[i])]
        bad == {i \in 1..Len(rest) : ~cs[i].ok}
        us == [i \in 1..Len(rest) |-> cs[i].w]
    IN  IF ~k.ok THEN MOut(k.e, e, st)
        ELSE IF bad # {} THEN MOut(cs[CHOOSE i \in bad : \A j \in bad : i <= j].e, e, st)
        ELSE IF us = <<>> THEN MOut(DefBody, e, st)
        ELSE IF \E i \in 1..Len(us) : WordEqString(us[i], k.name)
             THEN MOut(SelfRef(k.name), insert(e, k.name, us), st)
        ELSE MOut(Ok, insert(e, k.name, us), st)

\* The Token::Def arm of read_eval: ts holds the tokens after `def`.
define(e, st, ts) ==
    IF ts = <<>> THEN MOut(DefName, e, st)
    ELSE
    LET kw == try_from(ts[1])
        k == IF kw.ok THEN into_name(kw.w) ELSE [ok |-> FALSE, name |-> <<>>, e |-> kw.e]
        rest == Tail(ts)
        cs == [i \in 1..Len(rest) |-> try_from(rest[i])]
        bad == {i \in 1..Len(rest) : ~cs[i].ok}
        us == [i \in 1..Len(rest) |-> cs[i].w]
    IN  IF ~k.ok THEN MOut(k.e, e, st)
        ELSE IF bad # {} THEN MOut(cs[CHOOSE i \in bad : \A j \in bad : i <= j].e, e, st)
        ELSE IF us = <<>> THEN MOut(DefBody, e, st)
        ELSE IF \E i \in 1..Len(us) : WordEqString(us[i], k.name)
             THEN MOut(SelfRef(k.name), e, st)
        ELSE MOut(Ok, insert(e, k.name, us), st)

\* The loop of read_eval from the i-th token on.
RECURSIVE eval_tokens(_, _, _, _)
eval_tokens(e, st, ts, i) ==
    IF i > Len(ts) THEN MOut(Ok, e, st)
    ELSE IF ts[i].k = "Def" THEN define(e, st, SubSeq(ts, i + 1, Len(ts)))
    ELSE LET c == try_from(ts[i])
             o == eval(e, st, c.w)
         IN  IF ~c.ok THEN MOut(c.e, e, st)
             ELSE IF o.res # Ok THEN MOut(o.res, e, o.stack)
             ELSE eval_tokens(e, o.stack, ts, i + 1)

\* Mutant of read_eval: the line is lexed as it is evaluated, so the tokens
\* before a run that does not lex are evaluated.
read_eval_LexAsItGoes(e, st, line) ==
    LET bad == {i \in 1..Len(line) : ~LexRun(line[i]).ok}
        n == IF bad = {} THEN Len(line)
             ELSE (CHOOSE i \in bad : \A j \in bad : i <= j) - 1
        o == eval_tokens(e, st, [i \in 1..n |-> LexRun(line[i]).tok], 1)
    IN  IF bad = {} \/ o.res # Ok THEN o ELSE MOut(Parsing, o.env, o.stack)

\* Machine::read_eval
read_eval(e, st, line) ==
    LET l == Lexer(line)
    IN  IF ~l.ok THEN MOut(l.e, e, st) ELSE eval_tokens(e, st, l.toks, 1)

----------------------------------------------------------------------------
(* The inputs of the model. *)

Names == {<<"f">>, <<"g">>}
Lits == {IntText(0), IntText(1)}
\* A decimal and a hexadecimal literal one past the largest integer: they fail
\* to parse.
BadLit == IntText(MaxInt + 1)
BadHex == <<"#">> \o IntText(MaxInt + 1)

\* Lines without `def`: nothing, one run, or a literal and one run.
\* or two literals and `div`.
EvalRuns == Lits \cup Names \cup {T_add, T_div, T_drop, BadLit, BadHex}
EvalLines ==
    {<<>>} \cup {<<r>> : r \in EvalRuns} \cup {<<IntText(1), r>> : r \in EvalRuns}
        \cup {<<a, b, T_div>> : a \in Lits, b \in Lits}

\* Lines of `def`, then what stands for a name, then what stands for a body.
NameRuns == Names \cup {IntText(1), T_div, T_def}
BodyRuns == Names \cup {IntText(1), T_div, T_def}
DefLines ==
    {<<T_def>>} \cup {<<T_def, n>> : n \in NameRuns}
        \cup {<<T_def, n, b>> : n \in NameRuns, b \in BodyRuns}

\* The same with a literal before `def`.
LateDefLines == {<<IntText(1)>> \o d : d \in DefLines}

Lines == EvalLines \cup DefLines \cup LateDefLines

\* The words the in-crate callers of Machine::eval pass to it.
Words == CoreWords \cup {Num(n) : n \in {0, 1}} \cup {Custom(n) : n \in Names}

-----
(* The state machine.  last records the latest call: its operation, its    *)
(* input (the line of read_eval, the word of eval) and its result.  ref is *)
(* the state of the reference machine of the tests, which only the         *)
(* state-machine test moves.                                               *)

\* Machine::default()
Init ==
    /\ env = <<>>
    /\ stack = <<>>
    /\ last = [op |-> "default", line |-> <<>>, w |-> Pop, res |-> Ok]
    /\ ref = <<>>

\* A call that did not return ends the process: nothing is called after it.
Running == last.res.kind \notin Crashes

\* m.read_eval(line)
ReadEval ==
    /\ Running
    /\ \E line \in Lines :
        \E o \in {read_eval(env, stack, line)} :
            /\ Len(o.stack) <= MaxStack
            /\ env' = o.env
            /\ stack' = o.stack
            /\ last' = [op |-> "read_eval", line |-> line, w |-> Pop, res |-> o.res]
            /\ UNCHANGED ref

\* m.eval(&w), as the tests of machine.rs call it
Eval ==
    /\ Running
    /\ \E w \in Words :
        \E o \in {eval(env, stack, w)} :
            /\ Len(o.stack) <= MaxStack
            /\ stack' = o.stack
            /\ last' = [op |-> "eval", line |-> <<>>, w |-> w, res |-> o.res]
            /\ UNCHANGED <<env, ref>>

Next == ReadEval \/ Eval

Spec == Init /\ [][Next]_vars

----------------------------------------------------------------------------
(* The machine fed with definitions of two-word bodies, and with the lines *)
(* that push a value or evaluate a name.                                   *)

ExpandRuns == {T_dup, T_mul, IntText(1), <<"g">>}
ExpandLines ==
    {<<IntText(1)>>, <<IntText(-1)>>, <<IntText(0)>>, <<<<"f">>>>, <<<<"g">>>>}
        \cup {<<T_def, <<"f">>, a, b>> : a \in ExpandRuns, b \in ExpandRuns}
        \cup {<<T_def, <<"g">>, a>> : a \in {T_dup, IntText(1), <<"f">>}}

\* m.read_eval(line)
ReadEvalExpand ==
    /\ Running
    /\ \E line \in ExpandLines :
        \E o \in {read_eval(env, stack, line)} :
            /\ Len(o.stack) <= MaxStack
            /\ env' = o.env
            /\ stack' = o.stack
            /\ last' = [op |-> "read_eval", line |-> line, w |-> Pop, res |-> o.res]
            /\ UNCHANGED ref

NextExpand == ReadEvalExpand

SpecExpand == Init /\ [][NextExpand]_vars

----------------------------------------------------------------------------
(* machine.rs, mod tests: the state-machine test.  Dummy is the reference  *)
(* machine, a LinkedList<i64> with its back as the top; the test applies   *)
(* to the Machine every transition whose precondition holds of the         *)
(* reference state.                                                        *)

\* enum Op
Op(k, n) == [k |-> k, n |-> n]
Ops ==
    {Op("Push", n) : n \in I64}
        \cup {Op(k, 0) : k \in {"Pop", "Swap", "Dup", "Add", "Sub", "Mul", "Div", "Mod", "Zero"}}

\* impl From<Op> for Word
WordFrom(o) == IF o.k = "Push" THEN Num(o.n) ELSE Wd(o.k, 0, <<>>)

\* Dummy::preconditions
preconditions(state, transition) ==
    CASE transition.k = "Push" -> TRUE
      [] transition.k \in {"Pop", "Dup"} -> state # <<>>
      [] transition.k \in {"Swap", "Add", "Sub", "Mul"} -> Len(state) > 1
      [] transition.k \in {"Div", "Mod"} ->
            Len(state) > 1 /\ state[Len(state) - 1] > 0
      [] transition.k = "Zero" -> Len(state) > 2

\* Dummy::apply, called where preconditions holds.
apply(state, transition) ==
    LET n == Len(state)
        x == state[n]
        y == state[n - 1]
        z == state[n - 2]
    IN  CASE transition.k = "Push" -> Append(state, transition.n)
          [] transition.k = "Pop" -> DropTop(state, 1)
          [] transition.k = "Swap" -> DropTop(state, 2) \o <<x, y>>
          [] transition.k = "Dup" -> Append(state, x)
          [] transition.k = "Add" -> Append(DropTop(state, 2), wrapping_add(x, y))
          [] transition.k = "Sub" -> Append(DropTop(state, 2), wrapping_sub(x, y))
          [] transition.k = "Mul" -> Append(DropTop(state, 2), wrapping_mul(x, y))
          [] transition.k = "Div" -> Append(DropTop(state, 2), wrapping_div(x, y))
          [] transition.k = "Mod" -> Append(DropTop(state, 2), wrapping_rem(x, y))
          [] transition.k = "Zero" ->
                Append(DropTop(state, 3), IF x = 0 THEN y ELSE z)

\* One step of the test: the reference moves by a transition its
\* precondition admits, and StateMachineTest::apply evaluates the same
\* transition on the Machine.  An error of eval makes the test panic, and
\* no step follows it.
Apply ==
    /\ last.res = Ok
    /\ \E t \in Ops :
        /\ preconditions(ref, t)
        /\ Len(apply(ref, t)) <= MaxDeep
        /\ \E o \in {eval(env, stack, WordFrom(t))} :
            /\ ref' = apply(ref, t)
            /\ stack' = o.stack
            /\ last' = [op |-> "apply", line |-> <<>>, w |-> WordFrom(t), res |-> o.res]
            /\ UNCHANGED env

NextRef == Apply

SpecRef == Init /\ [][NextRef]_vars

----------------------------------------------------------------------------
(* The machine fed with one-word lines: every integer and every core       *)
(* spelling, on stacks up to MaxDeep deep.  Here last also keeps the Stack *)
(* the call found.                                                         *)

CoreLines ==
    {<<IntText(n)>> : n \in I64} \cup {<<c>> : c \in CoreSpellings \cup {T_pop}}

InitCore ==
    /\ env = <<>>
    /\ stack = <<>>
    /\ ref = <<>>
    /\ last = [op |-> "default", line |-> <<>>, w |-> Pop, res |-> Ok, before |-> <<>>]

\* m.read_eval(line)
ReadEvalCore ==
    /\ Running
    /\ \E line \in CoreLines :
        \E o \in {read_eval(env, stack, line)} :
            /\ Len(o.stack) <= MaxDeep
            /\ env' = o.env
            /\ stack' = o.stack
            /\ last' = [op |-> "read_eval", line |-> line, w |-> Pop, res |-> o.res,
                        before |-> stack]
            /\ UNCHANGED ref

NextCore == ReadEvalCore

SpecCore == InitCore /\ [][NextCore]_vars

----------------------------------------------------------------------------
(* machine.rs, tests::check_implies_ok: words of tests::word given to      *)
(* Machine::eval on a machine without definitions, each one only when      *)
(* Machine::check accepts it.                                              *)

OpWords == CoreWords \cup {Num(n) : n \in I64} \cup {Custom(n) : n \in Names}

\* if m.check(&w).is_ok() { m.eval(&w) }
CheckImpliesOk ==
    /\ last.res = Ok
    /\ \E w \in OpWords :
        /\ check(env, stack, w) = Ok
        /\ \E o \in {eval(env, stack, w)} :
            /\ Len(o.stack) <= MaxDeep
            /\ stack' = o.stack
            /\ last' = [op |-> "eval", line |-> <<>>, w |-> w, res |-> o.res,
                        before |-> stack]
            /\ UNCHANGED <<env, ref>>

NextOps == CheckImpliesOk

SpecOps == InitCore /\ [][NextOps]_vars

----------------------------------------------------------------------------
(* token.rs and word.rs, mod tests: the property tests on tokens.  Here    *)
(* last holds the generated token, then the call made on it and what it    *)
(* gave.                                                                   *)

\* tests::token, and identifier tokens beside it.
TokenInputs ==
    {TokDef} \cup {TokCore(c) : c \in CoreSpellings}
        \cup {TokNum(n) : n \in Wide}
        \cup {TokHex(n) : n \in {m \in Wide : m >= 0}}
        \cup {TokCustom(c) : c \in Names \cup {T_pop, T_def \o <<"x">>, <<"-">>, <<"#">>}}

InitTokens ==
    /\ env = <<>>
    /\ stack = <<>>
    /\ ref = <<>>
    /\ last \in {[op |-> "token", t |-> t] : t \in TokenInputs}

\* tests::roundtrip of token.rs: t.to_string(), then Token::lexer on it.
TokenRoundtrip ==
    /\ last.op = "token"
    /\ last' = [op |-> "roundtrip", t |-> last.t, s |-> TokDisplay(last.t),
                ts |-> Tokenize(TokDisplay(last.t), Wide)]
    /\ UNCHANGED <<env, stack, ref>>

\* tests::from_token of word.rs: Word::try_from(t)
WordFromToken ==
    /\ last.op = "token"
    /\ last' = [op |-> "try_from", t |-> last.t, res |-> try_from(last.t)]
    /\ UNCHANGED <<env, stack, ref>>

NextTokens == TokenRoundtrip \/ WordFromToken

SpecTokens == InitTokens /\ [][NextTokens]_vars

----------------------------------------------------------------------------
(* word.rs, mod tests: the property tests on words.  last holds the        *)
(* generated word, then the call made on it and what it gave.              *)

\* [a-zA-Z]+
WordTexts == Names \cup {T_add, T_def, T_pop, <<"d", "u", "p", "e">>, <<"F">>}

\* tests::word
WordInputs ==
    CoreWords \cup {Num(n) : n \in Wide} \cup {Custom(c) : c \in WordTexts}

\* \S+
StrInputs ==
    Names \cup {T_add, T_pop, T_zero, T_def, IntText(1), IntText(-1), <<"#", "1">>}

InitWords ==
    /\ env = <<>>
    /\ stack = <<>>
    /\ ref = <<>>
    /\ last \in {[op |-> "word", w |-> w] : w \in WordInputs}

\* tests::roundtrip of word.rs: w.to_string(), Token::lexer on it, and
\* Word::try_from on the token when there is exactly one.
WordRoundtrip ==
    /\ last.op = "word"
    /\ LET text == Display(last.w)
           ts == Tokenize(text, Wide)
       IN  last' = [op |-> "roundtrip", w |-> last.w, s |-> text, ts |-> ts,
                    back |-> IF ts.ok /\ Len(ts.toks) = 1 THEN try_from(ts.toks[1])
                             ELSE [ok |-> FALSE, w |-> Pop, e |-> ts.e]]
    /\ UNCHANGED <<env, stack, ref>>

\* tests::into_name: w.into_name()
WordIntoName ==
    /\ last.op = "word"
    /\ last' = [op |-> "into_name", w |-> last.w, res |-> into_name(last.w)]
    /\ UNCHANGED <<env, stack, ref>>

\* tests::str_eq: w == s
WordStrEq ==
    /\ last.op = "word"
    /\ \E str \in StrInputs :
           last' = [op |-> "str_eq", w |-> last.w, s |-> str,
                    eq |-> WordEqString(last.w, str)]
    /\ UNCHANGED <<env, stack, ref>>

NextWords == WordRoundtrip \/ WordIntoName \/ WordStrEq

SpecWords == InitWords /\ [][NextWords]_vars

----------------------------------------------------------------------------
(* Evaluation under the five-step contract of the specification: every     *)
(* word, at top level and inside a body at any depth, is checked before it *)
(* is applied.  The claims about bodies are stated against it.             *)

RECURSIVE contract_eval(_, _, _, _)
RECURSIVE contract_body(_, _, _, _, _)
contract_eval(e, st, w, chain) ==
    LET c == check(e, st, w)
    IN  IF c # Ok THEN Out(c, st)
        ELSE IF w.k # "Custom" THEN eval_core(st, w)
        ELSE IF w.w \in chain THEN Out(Diverge, st)
        ELSE contract_body(e, st, get(e, w.w), 1, chain \cup {w.w})

contract_body(e, st, body, i, chain) ==
    IF i > Len(body) THEN Out(Ok, st)
    ELSE LET o == contract_eval(e, st, body[i], chain)
         IN  IF o.res # Ok THEN o
             ELSE contract_body(e, o.stack, body, i + 1, chain)

\* The line lexes, and none of its tokens is `def`.
PlainLine(line) ==
    /\ \A i \in 1..Len(line) : LexRun(line[i]).ok
    /\ \A i \in 1..Len(line) : line[i] # T_def

----------------------------------------------------------------------------
(* C1.  In every reachable state and for every word, check returns Ok if   *)
(* and only if eval returns Ok.  The code breaks it: check passes a named  *)
(* reference that is in the Environment without looking at its body, and   *)
(* eval_inner then panics in the body.                                     *)
C1_CheckIffEval ==
    \A w \in Words : (check(env, stack, w) = Ok) <=> (eval(env, stack, w).res = Ok)

(* C2.  A core word evaluated on a stack shallower than its required depth *)
(* (pop/drop 1, dup 1, swap add sub mul div mod 2, zero? 3) fails with     *)
(* Small carrying its display form, the required and the available depth,  *)
(* and leaves the Stack and the Environment as they were; so does the line *)
(* that holds just that word.                                              *)
ClaimedDepth(w) ==
    CASE w \in {Pop, Dup} -> 1
      [] w \in {Swap, Add, Sub, Mul, Div, Mod} -> 2
      [] w = Zero -> 3

C2_UnderflowIsSmall ==
    \A w \in CoreWords :
        Len(stack) < ClaimedDepth(w) =>
            LET small == Small(Display(w), ClaimedDepth(w), Len(stack))
            IN  /\ eval(env, stack, w) = Out(small, stack)
                /\ LexRun(Display(w)).tok.k = "Core" =>
                       read_eval(env, stack, <<Display(w)>>) = MOut(small, env, stack)

\* `add` on the empty stack: required 2, available 0, the stack stays empty.
C2_Witness ==
    /\ last.op = "read_eval"
    /\ last.line = <<T_add>>
    /\ last.res = Small(T_add, 2, 0)
    /\ stack = <<>>

(* C3.  When a word of a named reference's body needs more stack than is   *)
(* there, evaluating the reference returns the Small error of that word.   *)
(* The code panics instead.                                                *)
C3_BodyUnderflowIsSmall ==
    \A n \in Names :
        LET c == contract_eval(env, stack, Custom(n), {})
        IN  c.res.kind = "Small" => eval(env, stack, Custom(n)).res = c.res

(* C4.  Whenever div or mod is about to be applied with a zero divisor, at *)
(* top level or inside a body, evaluation returns NNZ and pops nothing.    *)
(* The code panics inside a body, after popping both operands.             *)
C4_ZeroDivisorIsNNZ ==
    \A w \in Words :
        LET c == contract_eval(env, stack, w, {})
        IN  c.res.kind = "NNZ" => eval(env, stack, w) = Out(c.res, stack)

(* C5, as claimed.  For every integer a the line `a 0 div` fails with NNZ  *)
(* and leaves a and 0 on the stack.                                        *)
C5_ZeroOnTop ==
    \A a \in I64 :
        read_eval(env, stack, <<IntText(a), IntText(0), T_div>>)
            = MOut(NNZ(T_div), env, stack \o <<a, 0>>)

(* C5, amended.  For every integer a the line `0 a div` (or `0 a mod`),    *)
(* with the zero pushed first and so second from the top, fails with NNZ   *)
(* and leaves 0 and a on top of what the stack held.                       *)
C5_ZeroBeneathTop ==
    \A a \in I64 : \A op \in {T_div, T_mod} :
        read_eval(env, stack, <<IntText(0), IntText(a), op>>)
            = MOut(NNZ(op), env, stack \o <<0, a>>)

C5_Witness ==
    /\ last.op = "read_eval"
    /\ last.line = <<IntText(0), IntText(1), T_div>>
    /\ last.res = NNZ(T_div)
    /\ stack = <<0, 1>>

(* C6.  When the k-th token of a line without `def` is the first to fail,  *)
(* read_eval returns the error, the Stack is the one tokens 1..k-1 built   *)
(* and the Environment is unchanged.  The code breaks it when the failing  *)
(* token is a named reference whose body fails part-way (C3, C4).          *)
C6_FailureKeepsPrefix ==
    \A line \in EvalLines :
        LET o == read_eval(env, stack, line)
            Fails(k) == read_eval(env, stack, SubSeq(line, 1, k)).res # Ok
            k == CHOOSE i \in 1..Len(line) : Fails(i) /\ \A j \in 1..(i - 1) : ~Fails(j)
        IN  PlainLine(line) /\ o.res # Ok =>
                /\ o.res.kind \notin Crashes
                /\ o.stack = read_eval(env, stack, SubSeq(line, 1, k - 1)).stack
                /\ o.env = env

(* C7.  A line with a run that does not lex (a decimal or hexadecimal      *)
(* literal out of range) fails with the lexer's error and leaves the Stack *)
(* and the Environment as they were, whatever precedes that run.           *)
BadRuns == {BadLit, BadHex, IntText(MinInt - 1)}
BadLines ==
    {<<IntText(1), T_add, b>> : b \in BadRuns}
        \cup {<<T_def, n, b>> : n \in Names, b \in BadRuns}
        \cup {<<n, b>> : n \in Names, b \in BadRuns}

C7_LexBeforeEval ==
    \A line \in Lines \cup BadLines :
        (\E i \in 1..Len(line) : ~LexRun(line[i]).ok) =>
            read_eval(env, stack, line) = MOut(Parsing, env, stack)

\* `1` before the bad literal was not pushed.
C7_Witness ==
    /\ last.op = "read_eval"
    /\ last.line = <<IntText(1), BadLit>>
    /\ last.res = Parsing
    /\ stack = <<>>

(* C8.  A successful line `def name body...` binds name to the words of    *)
(* the body, in place of any earlier body, changes no other entry, leaves  *)
(* the Stack as it was and evaluates no word of the body.                  *)
C8_DefBinds ==
    \A line \in DefLines :
        LET o == read_eval(env, stack, line)
        IN  o.res = Ok =>
                /\ o.stack = stack
                /\ Keys(o.env) = Keys(env) \cup {line[2]}
                /\ Len(o.env) = Cardinality(Keys(o.env))
                /\ Len(get(o.env, line[2])) = Len(line) - 2
                /\ \A i \in 1..(Len(line) - 2) :
                       Display(get(o.env, line[2])[i]) = line[i + 2]
                /\ \A k \in Keys(env) \ {line[2]} : get(o.env, k) = get(env, k)

\* f, defined before g, is defined again as `1`: the 1 is not pushed.
C8_Witness ==
    /\ last.op = "read_eval"
    /\ last.line = <<T_def, <<"f">>, IntText(1)>>
    /\ last.res = Ok
    /\ Len(env) = 2
    /\ env[1] = [k |-> <<"f">>, v |-> <<Num(1)>>]
    /\ stack = <<0, 0>>

C10_EnvInvariant ==
    \A i \in 1..Len(env) :
        /\ LexRun(env[i].k) = [ok |-> TRUE, tok |-> TokCustom(env[i].k), e |-> Ok]
        /\ env[i].v # <<>>
        /\ \A j \in 1..Len(env[i].v) : env[i].v[j] # Custom(env[i].k)
        /\ \A j \in 1..Len(env) : env[j].k = env[i].k => j = i

C10_Witness ==
    /\ last.op = "read_eval"
    /\ last.res = Ok
    /\ Len(env) = 2
    /\ env[1].v = <<Custom(env[2].k)>>

(* C11.  A definition whose body holds the name being defined among its    *)
(* words (the body otherwise converting to words) fails with SelfRef of    *)
(* that name and leaves the Environment and the Stack as they were; if the *)
(* name had no entry, evaluating it afterwards fails with Unknown.         *)
SelfRefLines ==
    UNION {{<<T_def, n, n>>, <<T_def, n, IntText(1), n>>, <<T_def, n, n, m>>,
            <<T_def, n, T_div, n>>, <<IntText(1), T_def, n, n>>} :
               n \in Names, m \in Names}

C11_SelfRefRejected ==
    \A line \in SelfRefLines :
        LET d == CHOOSE i \in 1..Len(line) : line[i] = T_def
            n == line[d + 1]
            pre == read_eval(env, stack, SubSeq(line, 1, d - 1))
            o == read_eval(env, stack, line)
        IN  /\ o = MOut(SelfRef(n), env, pre.stack)
            /\ ~contains_key(env, n) =>
                   /\ eval(o.env, o.stack, Custom(n)) = Out(Unknown(n), o.stack)
                   /\ read_eval(o.env, o.stack, <<n>>) = MOut(Unknown(n), env, o.stack)

\* `def f f` was refused while g is defined and f is not.
C11_Witness ==
    /\ last.op = "read_eval"
    /\ last.line = <<T_def, <<"f">>, <<"f">>>>
    /\ last.res = SelfRef(<<"f">>)
    /\ Keys(env) = {<<"g">>}
    /\ stack = <<1>>

(* C12.  Each malformed definition line fails with its own error and       *)
(* changes neither the Environment nor the Stack: `def` alone gives        *)
(* DefName; a literal as the name gives NumNotName; a core spelling as the *)
(* name gives CoreNotName; `def` as the name or in the body gives          *)
(* Reserved; a name with nothing after it gives DefBody.  An error of the  *)
(* name comes before an error of the body, and a body that does not        *)
(* convert comes before the empty-body and the self-reference checks.  The *)
(* code breaks it for the spellings `drop` and `print`, which the lexer    *)
(* takes as core words and Word::try_from does not know.                   *)
C12_NameRuns ==
    Names \cup CoreSpellings \cup {T_def, IntText(1), IntText(-1), <<"#", "1">>}
C12_BodyRuns == Names \cup {T_def, T_div, IntText(1)}
C12_Lines ==
    {<<T_def>>} \cup {<<T_def, n>> : n \in C12_NameRuns}
        \cup {<<T_def, n, b>> : n \in C12_NameRuns, b \in C12_BodyRuns}
        \cup {<<T_def, n, b, c>> : n \in Names, b \in C12_BodyRuns, c \in C12_BodyRuns}

\* What the claim says of the line `def`, name, body.
C12_Claimed(line) ==
    LET name == line[2]
        body == SubSeq(line, 3, Len(line))
    IN  IF Len(line) = 1 THEN DefName
        ELSE IF name = T_def THEN Reserved
        ELSE IF IsNumText(name) \/ IsHexText(name) THEN NumNotName(LexRun(name).tok.n)
        ELSE IF name \in CoreSpellings THEN CoreNotName(name)
        ELSE IF \E i \in 1..Len(body) : body[i] = T_def THEN Reserved
        ELSE IF body = <<>> THEN DefBody
        ELSE IF \E i \in 1..Len(body) : body[i] = name THEN SelfRef(name)
        ELSE Ok

C12_MalformedDefinition ==
    \A line \in C12_Lines :
        C12_Claimed(line) # Ok =>
            read_eval(env, stack, line) = MOut(C12_Claimed(line), env, stack)

(* C13.  Whether a name has an entry is looked at when it is evaluated,    *)
(* not when a body that mentions it is defined: `def m n` with n not in    *)
(* the Environment is accepted, and evaluating a named reference without   *)
(* an entry, at top level or from a body, fails with Unknown of that name  *)
(* and leaves the Stack as it was.                                         *)
C13_UnknownAtEvaluation ==
    \A n \in Names :
        ~contains_key(env, n) =>
            /\ eval(env, stack, Custom(n)) = Out(Unknown(n), stack)
            /\ eval_inner(env, stack, Custom(n), {}) = Out(Unknown(n), stack)
            /\ read_eval(env, stack, <<n>>) = MOut(Unknown(n), env, stack)
            /\ \A m \in Names \ {n} :
                   LET o == read_eval(env, stack, <<T_def, m, n>>)
                   IN  /\ o.res = Ok
                       /\ o.stack = stack
                       /\ get(o.env, m) = <<Custom(n)>>
                       /\ ~contains_key(o.env, n)
                       /\ eval(o.env, stack, Custom(m)) = Out(Unknown(n), stack)

\* f was defined as `g`, g was never defined, and the line `f` failed on g.
C13_Witness ==
    /\ last.op = "read_eval"
    /\ last.line = <<<<"f">>>>
    /\ last.res = Unknown(<<"g">>)
    /\ env = <<[k |-> <<"f">>, v |-> <<Custom(<<"g">>)>>]>>
    /\ stack = <<1, 0>>

(* C14.  Expansion equivalence.  For every name n of the Environment with  *)
(* body b1..bk and every Stack on which evaluating b1, ..., bk one after   *)
(* the other as separate words succeeds, evaluating the named reference n  *)
(* succeeds and leaves the same Stack; likewise for the line `b1 ... bk`   *)
(* and the line `n`.                                                       *)
RECURSIVE EachInTurn(_, _, _, _)
EachInTurn(e, st, ws, i) ==
    IF i > Len(ws) THEN Out(Ok, st)
    ELSE LET o == eval(e, st, ws[i])
         IN  IF o.res # Ok THEN o ELSE EachInTurn(e, o.stack, ws, i + 1)

C14_ExpansionEquivalence ==
    \A i \in 1..Len(env) :
        LET n == env[i].k
            b == env[i].v
            sep == EachInTurn(env, stack, b, 1)
            sepLine == read_eval(env, stack, [j \in 1..Len(b) |-> Display(b[j])])
        IN  /\ sep.res = Ok => eval(env, stack, Custom(n)) = Out(Ok, sep.stack)
            /\ sepLine.res = Ok => read_eval(env, stack, <<n>>) = sepLine

\* f is `dup mul`, and the line `f` squared the value on the stack.
C14_Witness ==
    /\ last.op = "read_eval"
    /\ last.line = <<<<"f">>>>
    /\ last.res = Ok
    /\ get(env, <<"f">>) = <<Dup, Mul>>
    /\ stack = <<0, 1>>

(* C15.  Refinement of the reference machine.  Along every sequence of     *)
(* pushes and core operations whose steps satisfy the reference            *)
(* preconditions (depth >= 1 for pop and dup, >= 2 for swap add sub mul,   *)
(* >= 2 and a value > 0 second from the top for div and mod, >= 3 for      *)
(* zero?), the Machine started empty never returns an error, and after     *)
(* every step its Stack is the reference list, element for element.        *)
C15_RefinesReference ==
    /\ last.res = Ok
    /\ stack = ref

\* A division went through on both sides: 1 over 1 beneath a 0.
C15_Witness ==
    /\ last.op = "apply"
    /\ last.w = Div
    /\ ref = <<0, 1>>
    /\ stack = <<0, 1>>

(* C16.  add, sub and mul wrap modulo 2^IntBits into the signed range: on  *)
(* a stack of depth >= 2 the call succeeds, the two top values are         *)
(* replaced by one value of the range that is congruent to the             *)
(* mathematical sum, difference or product, and the values beneath stay.   *)
Congruent(r, exact) == r \in I64 /\ (r - exact) % Modulus = 0

C16_WrappingArithmetic ==
    LET b == last.before
        x == b[Len(b)]
        y == b[Len(b) - 1]
        exact == CASE last.line = <<T_add>> -> x + y
                   [] last.line = <<T_sub>> -> x - y
                   [] last.line = <<T_mul>> -> x * y
    IN  last.line \in {<<T_add>>, <<T_sub>>, <<T_mul>>} /\ Len(b) >= 2 =>
            /\ last.res = Ok
            /\ Len(stack) = Len(b) - 1
            /\ DropTop(stack, 1) = DropTop(b, 2)
            /\ Congruent(stack[Len(stack)], exact)

\* The square of the least integer overflows and wraps to 0.
C16_Witness ==
    /\ last.line = <<T_mul>>
    /\ last.before = <<1, MinInt, MinInt>>
    /\ last.res = Ok
    /\ stack = <<1, 0>>

(* C17.  zero? on a stack of depth >= 3 removes the top three values cond  *)
(* (top), thenVal (second) and elseVal (third) and pushes thenVal when     *)
(* cond = 0 and elseVal otherwise: the depth drops by 2 and the values     *)
(* beneath stay.                                                           *)
C17_ZeroSelects ==
    LET b == last.before
        cond == b[Len(b)]
        thenVal == b[Len(b) - 1]
        elseVal == b[Len(b) - 2]
    IN  last.line = <<T_zero>> /\ Len(b) >= 3 =>
            /\ last.res = Ok
            /\ Len(stack) = Len(b) - 2
            /\ stack = Append(DropTop(b, 3), IF cond = 0 THEN thenVal ELSE elseVal)

\* `1 -1 0 zero?` leaves -1, the second value.
C17_Witness ==
    /\ last.line = <<T_zero>>
    /\ last.before = <<1, -1, 0>>
    /\ last.res = Ok
    /\ stack = <<-1>>

(* C18.  For sub, div and mod the left operand a is the top of the stack   *)
(* and the right operand b the value beneath it: on a stack of depth >= 2  *)
(* (and b # 0 for div and mod) the two are replaced by a - b, by the       *)
(* quotient of a by b rounded toward zero, and by the remainder a - b * q, *)
(* each taken into the integer range.                                      *)
Quot(a, b) ==
    CHOOSE q \in -Modulus..Modulus :
        \E r \in -Modulus..Modulus :
            /\ a = q * b + r
            /\ Abs(r) < Abs(b)
            /\ r = 0 \/ (r < 0) = (a < 0)

C18_LeftOperandOnTop ==
    LET s == last.before
        a == s[Len(s)]
        b == s[Len(s) - 1]
        exact == CASE last.line = <<T_sub>> -> a - b
                   [] last.line = <<T_div>> -> Quot(a, b)
                   [] last.line = <<T_mod>> -> a - b * Quot(a, b)
    IN  /\ last.line \in {<<T_sub>>, <<T_div>>, <<T_mod>>}
        /\ Len(s) >= 2
        /\ last.line # <<T_sub>> => b # 0
        => /\ last.res = Ok
           /\ DropTop(stack, 1) = DropTop(s, 2)
           /\ Len(stack) = Len(s) - 1
           /\ Congruent(stack[Len(stack)], exact)

\* `1 MinInt div`: the top, MinInt, is divided by the 1 beneath it.
C18_Witness ==
    /\ last.line = <<T_div>>
    /\ last.before = <<1, MinInt>>
    /\ last.res = Ok
    /\ stack = <<MinInt>>

(* C19.  Every call of read_eval returns, with success or with an error:   *)
(* it never runs forever and never ends the process.  The code breaks it:  *)
(* a body applied without check panics (C3, C4), and names that refer to   *)
(* each other recurse without end.                                         *)
C19_ReadEvalReturns ==
    last.op = "read_eval" => last.res.kind \notin Crashes

(* C20.  The self-reference check is shallow.  A definition (name an       *)
(* identifier, body a non-empty sequence of words) is refused with SelfRef *)
(* if and only if its name is one of the words of its body; a body that    *)
(* reaches its own name only through other definitions, a cycle closed by  *)
(* redefining a name included, is bound.                                   *)
C20_BodyRuns == Names \cup {IntText(1), T_div}
C20_Lines ==
    {<<T_def, n, a>> : n \in Names, a \in C20_BodyRuns}
        \cup {<<T_def, n, a, b>> : n \in Names, a \in C20_BodyRuns, b \in C20_BodyRuns}

C20_ShallowSelfRef ==
    /\ \A line \in C20_Lines :
           LET n == line[2]
               literal == \E i \in 3..Len(line) : line[i] = n
               o == read_eval(env, stack, line)
           IN  /\ o.res.kind = "SelfRef" <=> literal
               /\ ~literal =>
                      /\ o.res = Ok
                      /\ o.stack = stack
                      /\ Len(get(o.env, n)) = Len(line) - 2
                      /\ \A i \in 3..Len(line) : Display(get(o.env, n)[i - 2]) = line[i]
    /\ \A n \in Names : \A m \in Names \ {n} :
           contains_key(env, m) /\ get(env, m) = <<Custom(n)>> =>
               read_eval(env, stack, <<T_def, n, m>>)
                   = MOut(Ok, insert(env, n, <<Custom(m)>>), stack)

\* f is `g`, and g was then defined as `f`: the cycle is in the Environment.
C20_Witness ==
    /\ last.op = "read_eval"
    /\ last.line = <<T_def, <<"g">>, <<"f">>>>
    /\ last.res = Ok
    /\ env = <<[k |-> <<"f">>, v |-> <<Custom(<<"g">>)>>],
               [k |-> <<"g">>, v |-> <<Custom(<<"f">>)>>]>>

(* C21 is a statement about two runs of one call; it has no formula here.  *)

(* C23.  Token round trip.  For the definition keyword, each of the ten    *)
(* core spellings, every decimal literal and every hexadecimal literal of  *)
(* a value >= 0, rendering the token and tokenizing the text gives exactly *)
(* one token, equal to the original: the keyword and the core spellings    *)
(* win over the identifier rule, which matches the same text.              *)
C23_TokenRoundtrip ==
    last.op = "roundtrip" =>
        /\ last.t.k \in {"Def", "Core", "Num", "Hex"} =>
               last.ts = [ok |-> TRUE, toks |-> <<last.t>>, e |-> Ok]
        /\ CustomLen(last.s, 1) = Len(last.s)

\* The token Hex(31) renders as `#1f` and lexes back to itself.
C23_Witness ==
    /\ last.op = "roundtrip"
    /\ last.t = TokHex(31)
    /\ last.s = <<"#", "1", "f">>
    /\ last.ts.toks = <<TokHex(31)>>

(* C24.  Converting a token to a Word fails if and only if the token is    *)
(* the definition keyword: each of the ten core tokens converts to its     *)
(* operation, a decimal or hexadecimal literal token to the integer Word   *)
(* of the same value, an identifier token to the named reference of the    *)
(* same text.  The code breaks it for the tokens `drop` and `print`.       *)
C24_ClaimedWord(t) ==
    CASE t.k = "Core" /\ t.s = T_drop -> Pop
      [] t.k = "Core" /\ t.s # T_drop -> CHOOSE c \in CoreWords : Display(c) = t.s
      [] t.k \in {"Num", "Hex"} -> Num(t.n)
      [] t.k = "Custom" -> Custom(t.s)

C24_FailsOnlyOnDef ==
    last.op = "try_from" =>
        /\ last.res.ok <=> last.t # TokDef
        /\ last.t = TokDef => last.res.e = Reserved
        /\ last.t # TokDef /\ last.t # TokCore(T_print) =>
               last.res.w = C24_ClaimedWord(last.t)

(* C22.  Word round trip.  For every Word (each core operation, every     *)
(* integer, every named reference) rendering it and tokenizing the text    *)
(* gives exactly one token, and converting that token gives a Word equal   *)
(* to the original.  The code breaks it for the first operation, which     *)
(* renders as `pop` and lexes as an identifier; and a named reference      *)
(* whose text is `def` or a core spelling does not come back either.       *)
C22_WordRoundtrip ==
    last.op = "roundtrip" =>
        /\ last.ts.ok
        /\ Len(last.ts.toks) = 1
        /\ last.back.ok
        /\ last.back.w = last.w

(* C25.  Converting a Word to a name succeeds exactly for named            *)
(* references, giving their text; for an integer Word it fails with        *)
(* NumNotName of that integer and for a core Word with CoreNotName of the  *)
(* operation's display form.                                               *)
C25_IntoName ==
    last.op = "into_name" =>
        /\ last.res.ok <=> last.w.k = "Custom"
        /\ last.res.ok <=> last.w = Custom(last.res.name)
        /\ last.w.k = "Custom" => last.res.name = last.w.w
        /\ last.w.k = "Num" => last.res.e = NumNotName(last.w.n)
        /\ last.w \in CoreWords => last.res.e = CoreNotName(Display(last.w))

\* zero? is not a name.
C25_Witness ==
    /\ last.op = "into_name"
    /\ last.w = Zero
    /\ last.res.e = CoreNotName(T_zero)

(* C27.  Comparing a Word with a string agrees with comparing its display  *)
(* form: for every Word w and every whitespace-free string s, w == s if    *)
(* and only if the rendering of w is s.  The code breaks it: only a named  *)
(* reference ever equals a string.                                         *)
C27_StrEqIsDisplayEq ==
    last.op = "str_eq" => (last.eq <=> Display(last.w) = last.s)

(* C26.  print requires stack depth 1; on a non-empty stack it removes     *)
(* exactly the top value (emitting it) and leaves every other element      *)
(* unchanged.  The code breaks it: the lexer gives the primitive token     *)
(* `print`, which Word::try_from does not know, so the line fails with     *)
(* Unknown whatever the stack.                                             *)
C26_PrintPops ==
    last.op = "read_eval" /\ last.line = <<T_print>> =>
        IF last.before = <<>>
        THEN last.res = Small(T_print, 1, 0) /\ stack = last.before
        ELSE last.res = Ok /\ stack = DropTop(last.before, 1)

\* The arity and the change of depth of each primitive operation.
C30_Arity(w) ==
    CASE w.k = "Num" -> 0
      [] w.k \in {"Pop", "Dup"} -> 1
      [] w.k \in {"Swap", "Add", "Sub", "Mul", "Div", "Mod"} -> 2
      [] w.k = "Zero" -> 3

C30_Delta(w) ==
    CASE w.k \in {"Num", "Dup"} -> 1
      [] w.k = "Swap" -> 0
      [] w.k \in {"Pop", "Add", "Sub", "Mul", "Div", "Mod"} -> -1
      [] w.k = "Zero" -> -2

(* C30.  A successful primitive operation of arity r leaves every element  *)
(* below the top r unchanged and changes the depth by a fixed amount:      *)
(* literal +1, dup +1, swap 0, drop -1, add/sub/mul/div/mod -1, zero? -2.  *)
(* swap exchanges the top two; dup leaves two copies of the former top.    *)
C30_FrameOfPrimitives ==
    last.op = "eval" /\ last.res = Ok /\ last.w.k # "Custom" =>
        LET b == last.before
            n == Len(b)
        IN  /\ Len(stack) = n + C30_Delta(last.w)
            /\ \A i \in 1..(n - C30_Arity(last.w)) : stack[i] = b[i]
            /\ last.w = Swap => stack[n] = b[n - 1] /\ stack[n - 1] = b[n]
            /\ last.w = Dup => stack[n] = b[n] /\ stack[n + 1] = b[n]

\* swap under a third value.
C30_Witness ==
    /\ last.op = "eval"
    /\ last.w = Swap
    /\ last.res = Ok
    /\ last.before = <<1, 0, -1>>
    /\ stack = <<1, -1, 0>>

\* A step that redefines a name already in the Environment.
C28_Redefines ==
    /\ last'.op = "read_eval"
    /\ last'.res = Ok
    /\ Len(last'.line) >= 3
    /\ last'.line[1] = T_def
    /\ contains_key(env, last'.line[2])

C28_Step ==
    C28_Redefines =>
        LET a == last'.line[2]
            text == SubSeq(last'.line, 3, Len(last'.line))
            body == get(env', a)
        IN  /\ Len(env') = Len(env)
            /\ \A i \in 1..Len(env) : env'[i].k = env[i].k
            /\ \A i \in 1..Len(env) : env[i].k # a => env'[i].v = env[i].v
            /\ [j \in 1..Len(body) |-> Display(body[j])] = text
            /\ \A i \in 1..Len(env) :
                   env'[i].v = <<Custom(a)>> =>
                       LET sep == EachInTurn(env', stack', body, 1)
                       IN  sep.res = Ok =>
                               eval(env', stack', Custom(env'[i].k)) = Out(Ok, sep.stack)

(* C28.  Named references are late-bound.  A body stores names, so when a  *)
(* name a is redefined the bodies of the other names stay as they were,    *)
(* and a name b whose body is `a` evaluates to what a's newest body gives. *)
(* The redefinition replaces a's body entirely, keeps the number of keys   *)
(* and keeps every key at its position in the insertion order.             *)
C28_LateBinding == [][C28_Step]_vars

\* f, defined before g and mentioned by g, has just been defined again, and
\* g squares with the new body.
C28_Witness ==
    /\ last.op = "read_eval"
    /\ last.line = <<T_def, <<"f">>, T_dup, T_mul>>
    /\ last.res = Ok
    /\ env = <<[k |-> <<"f">>, v |-> <<Dup, Mul>>], [k |-> <<"g">>, v |-> <<Custom(<<"f">>)>>]>>
    /\ stack = <<-1>>
    /\ eval(env, stack, Custom(<<"g">>)) = Out(Ok, <<1>>)

C29_Step ==
    /\ Keys(env) \subseteq Keys(env')
    /\ last'.op = "read_eval" /\ (\A i \in 1..Len(last'.line) : last'.line[i] # T_def) =>
           env' = env

(* C29.  Only a definition changes the Environment.  A line without `def`, *)
(* whether it succeeds or fails, leaves the Environment exactly as it was, *)
(* and over any sequence of calls the set of defined names never shrinks.  *)
C29_OnlyDefinitionsChangeEnv == [][C29_Step]_vars

\* With two names defined, a line failed on a short stack.
C29_Witness ==
    /\ last.op = "read_eval"
    /\ last.line = <<IntText(1), T_add>>
    /\ last.res = Small(T_add, 2, 1)
    /\ Len(env) = 2

(* C31.  div and mod with a non-zero divisor never fail, whatever the two  *)
(* operands: the call succeeds and pushes the quotient truncated toward    *)
(* zero, or the remainder, which has the sign of the dividend; in the one  *)
(* overflowing case, the least integer divided by -1, div pushes the least *)
(* integer and mod pushes 0.                                               *)
C31_DivModNeverFail ==
    LET s == last.before
        a == s[Len(s)]
        b == s[Len(s) - 1]
        q == Quot(a, b)
        top == stack[Len(stack)]
    IN  /\ last.op = "read_eval"
        /\ last.line \in {<<T_div>>, <<T_mod>>}
        /\ Len(s) >= 2
        /\ b # 0
        => /\ last.res = Ok
           /\ Len(stack) = Len(s) - 1
           /\ IF a = MinInt /\ b = -1
              THEN top = (IF last.line = <<T_div>> THEN MinInt ELSE 0)
              ELSE /\ last.line = <<T_div>> => top = q /\ Abs(q) * Abs(b) <= Abs(a)
                   /\ last.line = <<T_mod>> =>
                          /\ top = a - b * q
                          /\ Abs(top) < Abs(b)
                          /\ top = 0 \/ (top < 0) = (a < 0)

\* `-1 MinInt div`: the quotient is out of range and wraps to the least integer.
C31_Witness ==
    /\ last.op = "read_eval"
    /\ last.line = <<T_div>>
    /\ last.before = <<-1, MinInt>>
    /\ last.res = Ok
    /\ stack = <<MinInt>>

====
